---- MODULE Spec2Model ----
(***************************************************************************)
(* api_yamdb: role-based permission model, signup / confirmation-code      *)
(* flow, review store and title rating, modelled as a state machine over   *)
(* the relational store.  Every request handler is one action; a Review    *)
(* create is two steps (validation, then perform_create) so that two       *)
(* requests can interleave.  `last` is the response of the step that       *)
(* produced the current state.                                             *)
(***************************************************************************)
EXTENDS Integers, FiniteSets, Sequences, Bags, TLC

VARIABLES users, tokens, reviews, pending, workers, last

vars == <<users, tokens, reviews, pending, workers, last>>

(* ------------------------------ bounds --------------------------------- *)
MaxPending == 2

(* ------------------------------ domains -------------------------------- *)
None == "None"
Usernames == {"alice", "bob"}
Emails == {"a@x", "b@x"}
Roles == {"user", "moderator", "admin"}
SAFE_METHODS == {"GET", "HEAD", "OPTIONS"}
NoCode == <<>>
WrongCode == <<"token", 0, None>>
NoRating == <<>>
ScoreInputs == {0, 6, 8}
MinScore == 1
MaxScore == 10
Titles == {1, 2}
TitleIds == Titles \cup {3}

AnonymousUser == [id |-> 0]
NoReview == [title |-> 0, author |-> 0, score |-> 0]

is_authenticated(subj) == subj.id # 0

(* Subjects a request can resolve to: anonymous, or a stored user that     *)
(* holds a bearer token.                                                   *)
Subjects == {AnonymousUser} \cup {u \in users : u.id \in tokens}

(* ------------------------- Permission Evaluator ------------------------ *)
Allow == "allow"
Deny == "deny"
Error == "error"

PyBool(b) == IF b THEN Allow ELSE Deny

(* Python's short-circuit `or` over a decision that may raise.             *)
PyOr(a, b) == IF a = Allow THEN Allow ELSE IF a = Error THEN Error ELSE b

(* `request.user.role == r`: AnonymousUser has no attribute role.          *)
RoleIs(subj, r) ==
    IF ~is_authenticated(subj) THEN Error ELSE PyBool(subj.role = r)

IsOwnerIsModeratorIsAdminOrReadOnly_has_permission(method, subj) ==
    PyOr(PyBool(method \in SAFE_METHODS), PyBool(is_authenticated(subj)))

RO_object_mutant_owner_only(method, subj, obj) ==
    PyOr(PyBool(method \in SAFE_METHODS), PyBool(obj.author = subj.id))

IsOwnerIsModeratorIsAdminOrReadOnly_has_object_permission(method, subj, obj) ==
    PyOr(PyBool(method \in SAFE_METHODS),
    PyOr(PyBool(obj.author = subj.id),
    PyOr(RoleIs(subj, "admin"),
         RoleIs(subj, "moderator"))))

IsOwner_has_permission(method, subj) ==
    PyOr(PyBool(method \in SAFE_METHODS), PyBool(is_authenticated(subj)))

IsOwner_has_object_permission(method, subj, obj) ==
    PyBool(obj.user = subj.id)

IsAdminUser_has_permission(method, subj) == RoleIs(subj, "admin")

IsAdminUser_has_object_permission(method, subj, obj) == RoleIs(subj, "admin")

(* rest_framework.permissions.IsAuthenticated *)
IsAuthenticated_has_permission(method, subj) == PyBool(is_authenticated(subj))

(* Status of a request stopped by a gate: an exception raised inside the   *)
(* gate is a server error, a denial is 401 for an anonymous subject and    *)
(* 403 otherwise.                                                          *)
GateStatus(decision, subj) ==
    IF decision = Error THEN 500
    ELSE IF is_authenticated(subj) THEN 403 ELSE 401

(* ------------------------------ responses ------------------------------ *)
Blank ==
    [op |-> "init", status |-> 0, method |-> None, subj |-> AnonymousUser,
     gate |-> "none", objgate |-> "none", mails |-> 0, rcpt |-> None,
     username |-> None, email |-> None, code |-> NoCode, role |-> None,
     obj |-> NoReview, title |-> 0, rating |-> NoRating, token |-> FALSE,
     usersBefore |-> {}]

Resp(op, method, subj, status) ==
    [Blank EXCEPT !.op = op, !.method = method, !.subj = subj,
                  !.status = status]

(* ------------------------------ user store ----------------------------- *)
UserByName(us, username) == {u \in us : u.username = username}

(* default_token_generator.make_token(user): an opaque value derived from  *)
(* the user's key and state.                                               *)
make_token(user) == <<"token", user.id, user.email>>

NewUser(us, username, email, role) ==
    [id |-> Cardinality(us) + 1, username |-> username, email |-> email,
     role |-> role, confirmation_code |-> NoCode]

(* ------------------------------- Init ---------------------------------- *)
Init ==
    /\ users = {}
    /\ tokens = {}
    /\ reviews = EmptyBag
    /\ pending = EmptyBag
    /\ workers = 1
    /\ last = Blank

(* ------------------------------ Signup --------------------------------- *)
SignupExisting_mutant_never(us, username, email) == FALSE

SignupExisting_mutant_username_only(us, username, email) ==
    \E u \in us : u.username = username

(* CustomUser.objects.filter(username=..., email=...) is non-empty.        *)
SignupExisting(us, username, email) ==
    \E u \in us : u.username = username /\ u.email = email

(* CustomUserSerializer.is_valid: both fields present, username and email  *)
(* each unique among the stored users.                                     *)
CustomUserSerializer_is_valid(us, username, email) ==
    /\ username # None
    /\ email # None
    /\ \A u \in us : u.username # username /\ u.email # email

UserSignUpView_create(username, email, mailOk) ==
    /\ UNCHANGED <<tokens, reviews, pending, workers>>
    /\ LET R(st) == [Resp("signup", "POST", AnonymousUser, st)
                       EXCEPT !.username = username, !.email = email,
                              !.usersBefore = users]
       IN
       IF SignupExisting(users, username, email)
       THEN users' = users /\ last' = R(200)
       ELSE IF ~CustomUserSerializer_is_valid(users, username, email)
       THEN users' = users /\ last' = R(400)
       ELSE LET user == NewUser(users, username, email, "user")
                   saved == [user EXCEPT !.confirmation_code = make_token(user)]
            IN /\ users' = users \cup {saved}
               /\ last' = [R(IF mailOk THEN 200 ELSE 500)
                             EXCEPT !.code = saved.confirmation_code,
                                    !.mails = IF mailOk THEN 1 ELSE 0,
                                    !.rcpt = IF mailOk THEN email ELSE None]

(* --------------------------- Token exchange ---------------------------- *)
(* CustomTokenDateNotNull.is_valid: both fields are supplied.              *)
CustomTokenDateNotNull_is_valid(username, code) ==
    username # None /\ code # NoCode

(* CustomTokenCodeValidate(user).is_valid: the supplied code is the code   *)
(* stored for the user.                                                    *)
CustomTokenCodeValidate_is_valid(user, code) ==
    code = user.confirmation_code

TokenStatus_mutant_no_code_check(us, username, code) ==
    IF ~CustomTokenDateNotNull_is_valid(username, code) THEN 400
    ELSE IF UserByName(us, username) = {} THEN 404
    ELSE 200

(* Status of CustomTokenObtainPairView.create.                             *)
TokenStatus(us, username, code) ==
    IF ~CustomTokenDateNotNull_is_valid(username, code) THEN 400
    ELSE IF UserByName(us, username) = {} THEN 404
    ELSE IF \E u \in UserByName(us, username) :
                CustomTokenCodeValidate_is_valid(u, code)
         THEN 200
         ELSE 400

CodeInputs == {NoCode, WrongCode} \cup {u.confirmation_code : u \in users}

CustomTokenObtainPairView_create(username, code) ==
    /\ UNCHANGED <<users, reviews, pending, workers>>
    /\ LET st == TokenStatus(users, username, code)
       IN /\ tokens' = IF st = 200
                       THEN tokens \cup {u.id : u \in UserByName(users, username)}
                       ELSE tokens
          /\ last' = [Resp("token", "POST", AnonymousUser, st)
                        EXCEPT !.username = username, !.code = code,
                               !.token = (st = 200)]

(* --------------------------- Self profile ------------------------------ *)
UserProfileView_serializer_mutant_admin == "UserSerializer"

(* The serializer class UserProfileView.patch instantiates.                *)
UserProfileView_serializer == "UserProfileSerializer"

(* Fields a serializer class writes: UserSerializer (admin management)     *)
(* writes role, UserProfileSerializer (self profile) treats it read-only.  *)
SerializerWritable(cls) ==
    IF cls = "UserSerializer" THEN {"email", "role"} ELSE {"email"}

(* Partial validation of an update of `user`: a supplied email is unique   *)
(* among the other users.                                                  *)
UserUpdate_is_valid(us, user, email) ==
    email = None \/ \A u \in us \ {user} : u.email # email

(* serializer.save() of a partial update: only supplied, writable fields   *)
(* are written.                                                            *)
UserUpdate(cls, user, role, email) ==
    [user EXCEPT
       !.role = IF role # None /\ "role" \in SerializerWritable(cls)
                THEN role ELSE @,
       !.email = IF email # None /\ "email" \in SerializerWritable(cls)
                 THEN email ELSE @]

UserProfileView_patch(subj, role, email) ==
    /\ UNCHANGED <<tokens, reviews, pending, workers>>
    /\ LET g1 == IsOwner_has_permission("PATCH", subj)
           g2 == IsAuthenticated_has_permission("PATCH", subj)
           gate == IF g1 # Allow THEN g1 ELSE g2
           R(st) == [Resp("profile_patch", "PATCH", subj, st)
                       EXCEPT !.gate = gate, !.role = role, !.email = email]
       IN IF gate # Allow
          THEN users' = users /\ last' = R(GateStatus(gate, subj))
          ELSE IF ~UserUpdate_is_valid(users, subj, email)
          THEN users' = users /\ last' = R(400)
          ELSE /\ users' = (users \ {subj})
                     \cup {UserUpdate(UserProfileView_serializer, subj, role, email)}
               /\ last' = R(200)

(* ---------------------- Admin user management -------------------------- *)
UserViewSet_create(subj, username, email) ==
    /\ UNCHANGED <<tokens, reviews, pending, workers>>
    /\ LET gate == IsAdminUser_has_permission("POST", subj)
           R(st) == [Resp("users_create", "POST", subj, st)
                       EXCEPT !.gate = gate, !.username = username,
                              !.email = email]
       IN IF gate # Allow
          THEN users' = users /\ last' = R(GateStatus(gate, subj))
          ELSE IF SignupExisting(users, username, email)
          THEN users' = users /\ last' = R(200)
          ELSE IF ~CustomUserSerializer_is_valid(users, username, email)
          THEN users' = users /\ last' = R(400)
          ELSE /\ users' = users \cup {NewUser(users, username, email, "user")}
               /\ last' = R(201)

UserViewSet_update(subj) ==
    /\ UNCHANGED <<users, tokens, reviews, pending, workers>>
    /\ LET gate == IsAdminUser_has_permission("PUT", subj)
       IN last' = [Resp("users_update", "PUT", subj,
                        IF gate # Allow THEN GateStatus(gate, subj) ELSE 405)
                     EXCEPT !.gate = gate]

UserViewSet_partial_update(subj, username, role) ==
    /\ UNCHANGED <<tokens, reviews, pending, workers>>
    /\ LET gate == IsAdminUser_has_permission("PATCH", subj)
           found == UserByName(users, username)
           R(st, og) == [Resp("users_patch", "PATCH", subj, st)
                           EXCEPT !.gate = gate, !.objgate = og,
                                  !.username = username, !.role = role]
       IN IF gate # Allow
          THEN users' = users /\ last' = R(GateStatus(gate, subj), "none")
          ELSE IF found = {}
          THEN users' = users /\ last' = R(404, "none")
          ELSE \E instance \in found :
               LET og == IsAdminUser_has_object_permission("PATCH", subj, instance)
               IN IF og # Allow
                  THEN users' = users /\ last' = R(GateStatus(og, subj), og)
                  ELSE /\ users' = (users \ {instance})
                            \cup {UserUpdate("UserSerializer", instance, role, None)}
                       /\ last' = R(200, og)

UserViewSet_list(subj) ==
    /\ UNCHANGED <<users, tokens, reviews, pending, workers>>
    /\ LET gate == IsAdminUser_has_permission("GET", subj)
       IN last' = [Resp("users_list", "GET", subj,
                        IF gate # Allow THEN GateStatus(gate, subj) ELSE 200)
                     EXCEPT !.gate = gate]

(* Django admin site: CustomUser is registered with the role field         *)
(* editable, so a site administrator can set any user's role.              *)
AdminSite_change_role(user, role) ==
    /\ UNCHANGED <<tokens, reviews, pending, workers>>
    /\ users' = (users \ {user}) \cup {[user EXCEPT !.role = role]}
    /\ last' = [Resp("admin_site", "POST", AnonymousUser, 200)
                  EXCEPT !.username = user.username, !.role = role]

(* ------------------------------ Reviews -------------------------------- *)
(* The Review table is a bag of rows (title, author, score): the primary   *)
(* key is left out, two rows with equal columns are two copies.            *)
Rows(rs) == BagToSet(rs)

One(x) == SetToBag({x})

(* Number of stored reviews of `title` by `author`.                        *)
RECURSIVE CountRows(_, _)
CountRows(rs, S) ==
    IF S = {} THEN 0
    ELSE LET r == CHOOSE x \in S : TRUE
         IN CopiesIn(r, rs) + CountRows(rs, S \ {r})

ReviewsOf(rs, title, author) ==
    CountRows(rs, {r \in Rows(rs) : r.title = title /\ r.author = author})

ReviewUniqueConstraint_mutant_absent(rs, title, author) == TRUE

(* The store's uniqueness constraint on Review (title, author): an insert  *)
(* is accepted only when no stored review has the same pair.               *)
ReviewUniqueConstraint(rs, title, author) == ReviewsOf(rs, title, author) = 0

(* ReviewSerializer.is_valid on create: score in range, and no review of   *)
(* this title by this author is stored at validation time.                 *)
ReviewSerializer_is_valid(rs, title, author, score) ==
    /\ score \in MinScore..MaxScore
    /\ ReviewsOf(rs, title, author) = 0

(* ReviewPatchSerializer.is_valid: the restricted field set (score).       *)
ReviewPatchSerializer_is_valid(score) == score \in MinScore..MaxScore

(* POST /titles/{title_id}/reviews/, up to a valid serializer; the request *)
(* then waits for perform_create.  The set of titles does not change, so   *)
(* get_title, which perform_create calls after validation, is decided here *)
(* with the same outcome.                                                  *)
ReviewViewSet_create(subj, title_id, score) ==
    /\ BagCardinality(pending) < workers
    /\ UNCHANGED <<users, tokens, reviews, workers>>
    /\ LET gate == IsOwnerIsModeratorIsAdminOrReadOnly_has_permission("POST", subj)
           R(st) == [Resp("review_create", "POST", subj, st) EXCEPT !.gate = gate]
       IN IF gate # Allow
          THEN pending' = pending /\ last' = R(GateStatus(gate, subj))
          ELSE IF title_id \notin Titles
          THEN pending' = pending /\ last' = R(404)
          ELSE IF ~ReviewSerializer_is_valid(reviews, title_id, subj.id, score)
          THEN pending' = pending /\ last' = R(400)
          ELSE /\ pending' = pending (+)
                     One([author |-> subj.id, title |-> title_id, score |-> score])
               /\ last' = R(0)

(* serializer.save(title=title, author=self.request.user): the row         *)
(* perform_create hands to the store.                                      *)
Stamp(req) == [title |-> req.title, author |-> req.author, score |-> req.score]

(* ReviewViewSet.perform_create of a validated request.  A row the         *)
(* constraint rejects raises IntegrityError: the request fails, nothing is *)
(* stored.                                                                 *)
ReviewViewSet_perform_create(req) ==
    /\ BagIn(req, pending)
    /\ UNCHANGED <<users, tokens, workers>>
    /\ pending' = pending (-) One(req)
    /\ LET row == Stamp(req)
           R(st) == [Resp("review_save", "POST", AnonymousUser, st)
                       EXCEPT !.obj = row]
       IN IF ~ReviewUniqueConstraint(reviews, row.title, row.author)
          THEN reviews' = reviews /\ last' = R(500)
          ELSE reviews' = reviews (+) One(row) /\ last' = R(201)

(* get_object of ReviewViewSet: the addressed row among the reviews of the *)
(* title in the URL.                                                       *)
ReviewLookup(rs, title_id, row) ==
    {r \in Rows(rs) : r = row /\ r.title = title_id /\ title_id \in Titles}

ReviewViewSet_partial_update(subj, title_id, row, score) ==
    /\ UNCHANGED <<users, tokens, pending, workers>>
    /\ LET gate == IsOwnerIsModeratorIsAdminOrReadOnly_has_permission("PATCH", subj)
           found == ReviewLookup(reviews, title_id, row)
           R(st, og, obj) == [Resp("review_patch", "PATCH", subj, st)
                                EXCEPT !.gate = gate, !.objgate = og, !.obj = obj]
       IN IF gate # Allow
          THEN reviews' = reviews /\ last' = R(GateStatus(gate, subj), "none", NoReview)
          ELSE IF found = {}
          THEN reviews' = reviews /\ last' = R(404, "none", NoReview)
          ELSE \E obj \in found :
               LET og == IsOwnerIsModeratorIsAdminOrReadOnly_has_object_permission(
                             "PATCH", subj, obj)
               IN IF og # Allow
                  THEN reviews' = reviews /\ last' = R(GateStatus(og, subj), og, obj)
                  ELSE IF ~ReviewPatchSerializer_is_valid(score)
                  THEN reviews' = reviews /\ last' = R(400, og, obj)
                  ELSE /\ reviews' = (reviews (-) One(obj))
                                        (+) One([obj EXCEPT !.score = score])
                       /\ last' = R(200, og, obj)

ReviewViewSet_destroy(subj, title_id, row) ==
    /\ UNCHANGED <<users, tokens, pending, workers>>
    /\ LET gate == IsOwnerIsModeratorIsAdminOrReadOnly_has_permission("DELETE", subj)
           found == ReviewLookup(reviews, title_id, row)
           R(st, og, obj) == [Resp("review_delete", "DELETE", subj, st)
                                EXCEPT !.gate = gate, !.objgate = og, !.obj = obj]
       IN IF gate # Allow
          THEN reviews' = reviews /\ last' = R(GateStatus(gate, subj), "none", NoReview)
          ELSE IF found = {}
          THEN reviews' = reviews /\ last' = R(404, "none", NoReview)
          ELSE \E obj \in found :
               LET og == IsOwnerIsModeratorIsAdminOrReadOnly_has_object_permission(
                             "DELETE", subj, obj)
               IN IF og # Allow
                  THEN reviews' = reviews /\ last' = R(GateStatus(og, subj), og, obj)
                  ELSE /\ reviews' = reviews (-) One(obj)
                       /\ last' = R(204, og, obj)

(* ------------------------------- Titles -------------------------------- *)
reviews_for_title(rs, title_id) == {r \in Rows(rs) : r.title = title_id}

RECURSIVE SumScore(_, _)
SumScore(rs, S) ==
    IF S = {} THEN 0
    ELSE LET r == CHOOSE x \in S : TRUE
         IN CopiesIn(r, rs) * r.score + SumScore(rs, S \ {r})

RECURSIVE GCD(_, _)
GCD(a, b) == IF b = 0 THEN a ELSE GCD(b, a % b)

(* An exact quotient n / d, d > 0, in lowest terms.                        *)
Quotient(n, d) == <<n \div GCD(n, d), d \div GCD(n, d)>>

Avg_mutant_sum(rs, title_id) ==
    LET S == reviews_for_title(rs, title_id)
    IN IF S = {} THEN NoRating ELSE Quotient(SumScore(rs, S), 1)

(* Avg('reviews_for_title__score') of one title of the annotated queryset: *)
(* NULL over no rows, otherwise sum / count over the title's reviews.      *)
Avg(rs, title_id) ==
    LET S == reviews_for_title(rs, title_id)
    IN IF S = {} THEN NoRating ELSE Quotient(SumScore(rs, S), CountRows(rs, S))

(* GET /titles/{title_id}/ on the annotated queryset; GET is a safe        *)
(* method, which the read-only gate of the view lets through.              *)
TitleViewSet_retrieve(title_id) ==
    /\ UNCHANGED <<users, tokens, reviews, pending, workers>>
    /\ IF title_id \notin Titles
       THEN last' = [Resp("title_get", "GET", AnonymousUser, 404)
                       EXCEPT !.title = title_id]
       ELSE last' = [Resp("title_get", "GET", AnonymousUser, 200)
                       EXCEPT !.title = title_id,
                              !.rating = Avg(reviews, title_id)]

(* --------------------------- specifications ---------------------------- *)
NextAccounts ==
    \/ \E username \in Usernames \cup {None}, email \in Emails \cup {None},
          mailOk \in BOOLEAN : UserSignUpView_create(username, email, mailOk)
    \/ \E subj \in Subjects, role \in Roles \cup {None}, email \in Emails \cup {None} :
          UserProfileView_patch(subj, role, email)
    \/ \E username \in Usernames \cup {None}, code \in CodeInputs :
          CustomTokenObtainPairView_create(username, code)
    \/ \E subj \in Subjects, username \in Usernames \cup {None},
          email \in Emails \cup {None} :
          UserViewSet_create(subj, username, email)
    \/ \E subj \in Subjects : UserViewSet_update(subj)
    \/ \E subj \in Subjects : UserViewSet_list(subj)
    \/ \E subj \in Subjects, username \in Usernames, role \in Roles \cup {None} :
          UserViewSet_partial_update(subj, username, role)
    \/ \E user \in users, role \in Roles : AdminSite_change_role(user, role)

(* URLs /titles/{title_id}/reviews/{id}/ a request addresses: each stored  *)
(* review under its own title and under another one, and an id that is not *)
(* stored.                                                                 *)
ReviewUrls ==
    {<<r.title, r>> : r \in Rows(reviews)}
        \cup {<<3 - r.title, r>> : r \in Rows(reviews)}
        \cup {<<1, NoReview>>}

NextConcurrent ==
    \/ \E subj \in Subjects, title_id \in TitleIds, score \in ScoreInputs :
          ReviewViewSet_create(subj, title_id, score)
    \/ \E req \in BagToSet(pending) : ReviewViewSet_perform_create(req)
    \/ \E subj \in Subjects, url \in ReviewUrls :
          ReviewViewSet_destroy(subj, url[1], url[2])

NextReviews ==
    \/ NextConcurrent
    \/ \E subj \in Subjects, url \in ReviewUrls, score \in ScoreInputs :
          ReviewViewSet_partial_update(subj, url[1], url[2], score)
    \/ \E title_id \in TitleIds : TitleViewSet_retrieve(title_id)

Next == NextAccounts \/ NextReviews

Spec == Init /\ [][Next]_vars

(* The account flows alone: the review store stays empty.                  *)
SpecAccounts == Init /\ [][NextAccounts]_vars

(* The review flows over a registered population: both users signed up     *)
(* and exchanged their codes for tokens; roles as the admin site set them. *)
Registered(r1, r2) ==
    {[id |-> 1, username |-> "alice", email |-> "a@x", role |-> r1,
      confirmation_code |-> <<"token", 1, "a@x">>],
     [id |-> 2, username |-> "bob", email |-> "b@x", role |-> r2,
      confirmation_code |-> <<"token", 2, "b@x">>]}

(* Requests served one at a time; the first user has any role.  `workers`  *)
(* is the deployment's number of request workers, fixed for a run.         *)
InitReviews ==
    /\ \E r1 \in Roles : users = Registered(r1, "user")
    /\ tokens = {1, 2}
    /\ reviews = EmptyBag
    /\ pending = EmptyBag
    /\ workers = 1
    /\ last = Blank

SpecReviews == InitReviews /\ [][NextReviews]_vars

(* Up to MaxPending requests in flight at once.                            *)
InitConcurrent ==
    /\ users = Registered("user", "user")
    /\ tokens = {1, 2}
    /\ reviews = EmptyBag
    /\ pending = EmptyBag
    /\ workers = MaxPending
    /\ last = Blank

SpecConcurrent == InitConcurrent /\ [][NextConcurrent]_vars

(* ------------------------------ properties ----------------------------- *)
Staff == {"moderator", "admin"}

(* C1: every unsafe request of an anonymous subject is decided deny by the *)
(* gates it passes, collection-level and object-level, and no gate raises  *)
(* while reading the role the anonymous subject does not have.             *)
C1_AnonymousUnsafeDenied ==
    (/\ last.subj = AnonymousUser
     /\ last.method \in {"POST", "PATCH", "PUT", "DELETE"}
     /\ last.gate # "none")
        => /\ last.gate = Deny
           /\ last.objgate \in {"none", Deny}

(* C2: the store holds at most one Review per (title, author) pair, in     *)
(* every state reached by interleaved create requests.                     *)
C2_OneReviewPerTitleAuthor ==
    \A t \in Titles : \A u \in users : ReviewsOf(reviews, t, u.id) <= 1

(* A create that lost the race against a concurrent create by the same     *)
(* author for the same title: rejected by the store, one review stored.    *)
C2_Witness ==
    /\ last.op = "review_save"
    /\ last.status = 500
    /\ ReviewsOf(reviews, last.obj.title, last.obj.author) = 1

C4_SignupUsernameTaken ==
    (/\ last.op = "signup"
     /\ \E u \in last.usersBefore :
           u.username = last.username /\ u.email # last.email)
        => (last.status = 400 /\ users = last.usersBefore)

C4_Witness ==
    /\ last.op = "signup"
    /\ last.status = 400
    /\ last.email \in Emails
    /\ \E u \in last.usersBefore :
          u.username = last.username /\ u.email # last.email

C6_TokenFailuresGeneric ==
    (last.op = "token" /\ ~last.token) => last.status = 400

(* C7: a token exchange naming a stored User with a code other than that   *)
(* user's code responds 400: no 404, no token.                             *)
C7_WrongCodeIs400 ==
    (/\ last.op = "token"
     /\ \E u \in users : u.username = last.username
                           /\ u.confirmation_code # last.code)
        => (last.status = 400 /\ ~last.token)

C7_Witness ==
    /\ last.op = "token"
    /\ last.status = 400
    /\ last.code = WrongCode
    /\ \E u \in users : u.username = last.username
                          /\ u.confirmation_code # NoCode

(* C8: an unsafe request of an authenticated subject on a stored Review    *)
(* passes the object-level gate exactly when the subject is the author or  *)
(* has role moderator or admin; a DELETE then removes the review, and a    *)
(* DELETE the gate denies responds 403 and leaves it stored.               *)
C8_ObjectGate ==
    (/\ last.op \in {"review_patch", "review_delete"}
     /\ is_authenticated(last.subj)
     /\ last.obj # NoReview)
        => LET permitted == \/ last.obj.author = last.subj.id
                            \/ last.subj.role \in Staff
           IN /\ last.objgate = (IF permitted THEN Allow ELSE Deny)
              /\ last.op = "review_delete" =>
                    IF permitted
                    THEN last.status = 204 /\ ~BagIn(last.obj, reviews)
                    ELSE last.status = 403 /\ BagIn(last.obj, reviews)

(* A moderator or admin has deleted another user's review.                 *)
C8_Witness ==
    /\ last.op = "review_delete"
    /\ last.status = 204
    /\ last.obj.author # last.subj.id
    /\ last.subj.role \in Staff

(* C9: a Signup that responds 200 has dispatched exactly one confirmation  *)
(* email, to the supplied address, during the call.                        *)
C9_SignupSuccessSendsMail ==
    (last.op = "signup" /\ last.status = 200)
        => (last.mails = 1 /\ last.rcpt = last.email)

(* C10: the rating a Title reports is the mean of the scores of the        *)
(* reviews stored for it: null without reviews, 7 for scores 6 and 8.      *)
C10_RatingIsMean ==
    (last.op = "title_get" /\ last.status = 200) =>
        LET S == {r \in Rows(reviews) : r.title = last.title}
            n == CountRows(reviews, S)
            scores == {r.score : r \in S}
        IN /\ n = 0 <=> last.rating = NoRating
           /\ n > 0 => /\ Len(last.rating) = 2
                       /\ last.rating[2] > 0
                       /\ last.rating[1] * n = SumScore(reviews, S) * last.rating[2]
                       /\ GCD(last.rating[1], last.rating[2]) = 1
           /\ (n = 2 /\ scores = {6, 8}) => last.rating = <<7, 1>>
           /\ (n = 1 /\ scores = {6}) => last.rating = <<6, 1>>

(* A title with reviews scored 6 and 8 has reported its rating.            *)
C10_Witness ==
    /\ last.op = "title_get"
    /\ last.rating = <<7, 1>>
    /\ {r.score : r \in {x \in Rows(reviews) : x.title = last.title}} = {6, 8}
====
